---- MODULE Spec2Model ----
(***************************************************************************)
(* Model of the houdini runtime client (HoudiniClient: plugin pipeline     *)
(* assembly and observe) and of the paginated fragment stores built on     *)
(* DocumentObserver (houdini-svelte, stores/pagination/fragment.ts).       *)
(*                                                                         *)
(* JavaScript values are modelled as follows:                              *)
(*   - an object is a function from key strings to values, {} is <<>>;     *)
(*   - an optional value is a record [defined, obj];                       *)
(*   - a Promise is a record [status, value, reason]; it has no own        *)
(*     enumerable property.                                                *)
(***************************************************************************)
EXTENDS Integers, Sequences, FiniteSets, TLC

VARIABLES client, pluginsFromPlugins, observers, handles, lastCall

vars == <<client, pluginsFromPlugins, observers, handles, lastCall>>

-----------------------------------------------------------------------------
(* Bounds *)

MaxUserPlugins == 2
MaxObservers == 2
MaxHandles == 1
MaxSends == 2
MaxSubscribers == 2

-----------------------------------------------------------------------------
(* JavaScript helpers *)

EmptyObject == <<>>

\* { ...a, ...b }: keys of both, b wins
ObjectSpread(a, b) ==
    [k \in (DOMAIN a) \cup (DOMAIN b) |-> IF k \in DOMAIN b THEN b[k] ELSE a[k]]

Undefined == [defined |-> FALSE, obj |-> EmptyObject]
Defined(o) == [defined |-> TRUE, obj |-> o]

\* args?.variables spread into an object literal: undefined spreads to nothing
SpreadOptional(o) == IF o.defined THEN o.obj ELSE EmptyObject

\* spreading a Promise object copies its own enumerable properties: none
SpreadPromise(p) == EmptyObject

-----------------------------------------------------------------------------
(* The client: packages/houdini/src/runtime/client/index.ts *)

inputsPlugin == "inputsPlugin"
queryPlugin == "queryPlugin"
mutationPlugin == "mutationPlugin"
fetchPluginInstance == "fetchPlugin"
fetchParamsPluginInstance == "fetchParamsPlugin"

\* fetchPlugin(): the default network plugin
fetchPlugin == fetchPluginInstance

\* fetchParamsPlugin(fetchParams)
fetchParamsPlugin(fetchParams) == fetchParamsPluginInstance

UserPlugins == {"userA", "userB"}

RECURSIVE SeqsUpTo(_, _)
SeqsUpTo(S, n) ==
    IF n = 0 THEN {<<>>}
    ELSE LET shorter == SeqsUpTo(S, n - 1)
         IN  shorter \cup {Append(s, x) : s \in shorter, x \in S}

\* the values a caller can pass as `plugins`
PluginLists == SeqsUpTo(UserPlugins, MaxUserPlugins)

\* the values a caller's `pipeline` function can return
PipelineResults ==
    { <<>>,
      <<"userA">>,
      <<queryPlugin, fetchPluginInstance>>,
      <<queryPlugin, mutationPlugin, "userB", fetchPluginInstance>> }

\* the values of the module pluginsFromPlugins (injectedPlugins)
InjectedPluginLists == { <<>>, <<"frameworkPlugin">> }

Urls == {"https://api.test/graphql"}

NoList == [defined |-> FALSE, list |-> <<>>]
SomeList(l) == [defined |-> TRUE, list |-> l]

ConstructorArgs ==
    [ url : Urls,
      fetchParams : BOOLEAN,
      plugins : {NoList} \cup {SomeList(l) : l \in PluginLists},
      pipeline : {NoList} \cup {SomeList(l) : l \in PipelineResults} ]

\* variant: the guard tests the length of the plugin list
ConstructorThrows_EmptyListFalsy(args) ==
    args.plugins.defined /\ args.plugins.list # <<>> /\ args.pipeline.defined

\* if (plugins && pipeline) throw ...: an array and a function are truthy
ConstructorThrows(args) == args.plugins.defined /\ args.pipeline.defined

\* variant: the fetch plugin is concatenated before the injected plugins
StandardSet_FetchBeforeInjected(args, injected) ==
    <<queryPlugin, mutationPlugin>>
        \o (IF args.plugins.defined THEN args.plugins.list ELSE <<>>)
        \o <<fetchPlugin>>
        \o injected

\* variant: the injected plugins are concatenated before the user's
StandardSet_InjectedBeforeUser(args, injected) ==
    <<queryPlugin, mutationPlugin>>
        \o injected
        \o (IF args.plugins.defined THEN args.plugins.list ELSE <<>>)
        \o <<fetchPlugin>>

\* [queryPlugin, mutationPlugin].concat(plugins ?? [], pluginsFromPlugins, fetchPlugin())
StandardSet(args, injected) ==
    <<queryPlugin, mutationPlugin>>
        \o (IF args.plugins.defined THEN args.plugins.list ELSE <<>>)
        \o injected
        \o <<fetchPlugin>>

\* variant: the injected plugins and the fetch plugin are appended to a custom pipeline
PipelineOrStandardSet_AppendsToPipeline(args, injected) ==
    IF args.pipeline.defined
    THEN args.pipeline.list \o injected \o <<fetchPlugin>>
    ELSE StandardSet(args, injected)

\* pipeline?.() ?? standard set
PipelineOrStandardSet(args, injected) ==
    IF args.pipeline.defined THEN args.pipeline.list ELSE StandardSet(args, injected)

\* variant: the fetch-params plugin is put in front of the list
AssemblePlugins_FetchParamsFirst(args, injected) ==
    (IF args.fetchParams THEN <<fetchParamsPlugin(args.fetchParams)>> ELSE <<>>)
        \o <<inputsPlugin>>
        \o PipelineOrStandardSet(args, injected)

\* this.#plugins = [inputsPlugin].concat(fetchParams ? [...] : [], ...)
AssemblePlugins(args, injected) ==
    <<inputsPlugin>>
        \o (IF args.fetchParams THEN <<fetchParamsPlugin(args.fetchParams)>> ELSE <<>>)
        \o PipelineOrStandardSet(args, injected)

\* pipelineCalls counts the evaluations of the caller's pipeline function
NoClient ==
    [ status |-> "none", url |-> "", plugins |-> <<>>, args |-> CHOOSE a \in ConstructorArgs :
        ~a.fetchParams /\ ~a.plugins.defined /\ ~a.pipeline.defined,
      pipelineCalls |-> 0 ]

\* new HoudiniClient(args): either throws (no object results) or yields a client;
\* pipeline?.() is evaluated once, after the guard
NewHoudiniClient(args, injected) ==
    IF ConstructorThrows(args)
    THEN [ status |-> "threw", url |-> "", plugins |-> <<>>, args |-> args,
           pipelineCalls |-> 0 ]
    ELSE [ status |-> "constructed", url |-> args.url,
           plugins |-> AssemblePlugins(args, injected), args |-> args,
           pipelineCalls |-> IF args.pipeline.defined THEN 1 ELSE 0 ]

-----------------------------------------------------------------------------
(* DocumentObserver: created by HoudiniClient.observe, used through send *)

Null == [isNull |-> TRUE, fields |-> EmptyObject]
Value(f) == [isNull |-> FALSE, fields |-> f]

\* the results a server can answer a send with
ResponseData == { Value([id |-> "42"]), Value([id |-> "7", name |-> "n"]) }

\* artifacts of paginated fragments: refetch.targetType, or no refetch at all
NoRefetch == [refetch |-> FALSE, targetType |-> ""]
Refetch(t) == [refetch |-> TRUE, targetType |-> t]
Artifacts == { Refetch("User"), Refetch("Post"), Refetch("Ghost"), NoRefetch }

\* the page of the paginated list that comes with each result: its entities and the
\* page info of the connection
PageOf(d) ==
    IF "name" \in DOMAIN d.fields
    THEN [ entities |-> <<"e3">>, endCursor |-> "c3", hasNextPage |-> FALSE ]
    ELSE [ entities |-> <<"e1", "e2">>, endCursor |-> "c2", hasNextPage |-> TRUE ]

\* nullPageInfo(): the page info before any page was loaded
nullPageInfo == [ endCursor |-> "", hasNextPage |-> FALSE ]

PageInfoOf(page) == [ endCursor |-> page.endCursor, hasNextPage |-> page.hasNextPage ]

\* new DocumentObserver({ client, artifact, plugins, cache }); entities is the
\* paginated list of its data, pageInfo the page info store of the handlers built
\* over this observer
NewDocumentObserver(artifact, plugins, cache) ==
    [ artifact |-> artifact,
      plugins |-> plugins,
      cache |-> cache,
      data |-> Null,
      entities |-> <<>>,
      pageInfo |-> nullPageInfo,
      gen |-> 0,
      committedGen |-> 0,
      pending |-> {},
      subscribers |-> 0 ]

\* HoudiniClient.observe({ artifact, cache = true }): initialValue is not a parameter
observe(c, artifact, cache) == NewDocumentObserver(artifact, c.plugins, cache)

\* observer.send(args): a new request is in flight, tagged with the next generation
send(o, sendArgs) ==
    [ o EXCEPT !.gen = o.gen + 1,
               !.pending = o.pending \cup
                  {[ token |-> o.gen + 1,
                     applyUpdates |-> sendArgs.cacheParams.defined
                                      /\ "applyUpdates" \in DOMAIN sendArgs.cacheParams.obj
                                      /\ sendArgs.cacheParams.obj["applyUpdates"] ]} ]

\* variant: the cleanup hooks run in plugin order
cleanupHooks_InPluginOrder(plugins) == plugins

\* the cleanup hooks that run when the last subscriber has gone: one per plugin,
\* last plugin first
cleanupHooks(plugins) ==
    [i \in 1..Len(plugins) |-> plugins[Len(plugins) + 1 - i]]

\* observer.subscribe(callback)
subscribe(o) == [o EXCEPT !.subscribers = o.subscribers + 1]

\* the unsubscribe function returned by subscribe: the observer without the
\* subscriber, and the cleanup hooks that ran
unsubscribe(o) ==
    [ observer |-> [o EXCEPT !.subscribers = o.subscribers - 1],
      cleanup |-> IF o.subscribers = 1 THEN cleanupHooks(o.plugins) ELSE <<>> ]

\* variant: every result is committed when it arrives
Commits_LastWriteWins(o, p) == TRUE

\* a result is committed only if no newer send has committed already
Commits(o, p) == p.token > o.committedGen

\* the response of the pending send p arrives with result d
\* with applyUpdates the page is appended to the list, without it the list is replaced
complete(o, p, d) ==
    IF Commits(o, p)
    THEN [ o EXCEPT !.data = d,
                    !.entities = IF p.applyUpdates THEN o.entities \o PageOf(d).entities
                                 ELSE PageOf(d).entities,
                    !.pageInfo = PageInfoOf(PageOf(d)),
                    !.committedGen = p.token,
                    !.pending = o.pending \ {p} ]
    ELSE [ o EXCEPT !.pending = o.pending \ {p} ]

-----------------------------------------------------------------------------
(* Paginated fragment stores: houdini-svelte/src/runtime/stores/pagination/fragment.ts *)

UndefinedValue == "<undefined>"

\* getCurrentConfig().types: User and Comment have key fields only, Post and Tag also
\* a resolve.arguments function, Ghost (and '') have no entry
ConfiguredTypes == {"User", "Post", "Comment", "Tag"}

TypeConfig(t) ==
    CASE t = "Post" -> [ keys |-> <<"id">>, resolveArguments |-> TRUE ]
      [] t = "Tag" -> [ keys |-> <<"id">>, resolveArguments |-> TRUE ]
      [] t = "Comment" -> [ keys |-> <<"id", "slug">>, resolveArguments |-> FALSE ]
      [] OTHER -> [ keys |-> <<"id">>, resolveArguments |-> FALSE ]

\* value[key]: undefined when the object has no such property
Property(value, key) ==
    IF key \in DOMAIN value.fields THEN value.fields[key] ELSE UndefinedValue

\* the resolve.arguments function configured for Post
PostArguments(value) ==
    IF value.isNull THEN Undefined
    ELSE Defined([postID |-> Property(value, "id")])

\* the resolve.arguments function configured for Tag returns nothing
TagArguments(value) == Undefined

\* typeConfig.resolve.arguments(value)
ResolveArguments(t, value) ==
    IF t = "Post" THEN PostArguments(value) ELSE TagArguments(value)

\* keyFieldsForType(config, targetType)
keyFieldsForType(t) == TypeConfig(t).keys

Fulfilled(v) == [status |-> "fulfilled", value |-> v, reason |-> ""]
Rejected(r) == [status |-> "rejected", value |-> EmptyObject, reason |-> r]

MissingTypeRefetch == "Missing type refetch configuration"

\* variant: every field of the cached value is copied, not only the key fields
queryVariables_CopiesValue(artifact, value) ==
    LET targetType == IF artifact.refetch THEN artifact.targetType ELSE ""
    IN  IF targetType \notin ConfiguredTypes
        THEN Rejected(MissingTypeRefetch)
        ELSE IF TypeConfig(targetType).resolveArguments
        THEN Fulfilled(SpreadOptional(ResolveArguments(targetType, value)))
        ELSE IF value.isNull
             THEN Rejected("TypeError")
             ELSE Fulfilled(value.fields)

\* BasePaginatedFragmentStore.queryVariables: an async function, so what the caller
\* gets is a Promise: rejected when the body throws, fulfilled with its return value
queryVariables(artifact, value) ==
    LET targetType == IF artifact.refetch THEN artifact.targetType ELSE ""
    IN  IF targetType \notin ConfiguredTypes
        THEN Rejected(MissingTypeRefetch)
        ELSE IF TypeConfig(targetType).resolveArguments
        THEN \* typeConfig.resolve.arguments(value) || {}
             Fulfilled(SpreadOptional(ResolveArguments(targetType, value)))
        ELSE LET keys == keyFieldsForType(targetType)
             IN  IF value.isNull
                 THEN Rejected("TypeError")
                 ELSE Fulfilled([k \in {keys[i] : i \in DOMAIN keys} |-> Property(value, k)])

\* what the handlers pass to fetch / fetchUpdate: undefined, or an object with
\* optional variables and optional cacheParams
Variables == { [first |-> "10", id |-> "stale"] }

CacheParams == { [applyUpdates |-> FALSE], [applyUpdates |-> TRUE] }

NoArgs == [defined |-> FALSE, variables |-> Undefined, cacheParams |-> Undefined]

HandlerArgs ==
    {NoArgs} \cup
    [ defined : {TRUE},
      variables : {Undefined} \cup {Defined(v) : v \in Variables},
      cacheParams : {Undefined} \cup {Defined(c) : c \in CacheParams} ]

\* the variables of the object literal handed to observer.send:
\*   { ...args?.variables, ...this.queryVariables(observer) }
\* the Promise returned by queryVariables is spread as it is, not awaited
SendVariables(args, promise) ==
    ObjectSpread(SpreadOptional(args.variables), SpreadPromise(promise))

\* variant: the caller's cacheParams are spread over the flag
CursorFetchUpdate_CallerWins(args, promise) ==
    [ variables |-> SendVariables(args, promise),
      cacheParams |-> Defined(ObjectSpread([applyUpdates |-> TRUE],
                                           SpreadOptional(args.cacheParams))) ]

\* storeHandlers: fetchUpdate: observer.send({ ...args, variables, cacheParams: { applyUpdates: true } })
CursorFetchUpdate(args, promise) ==
    [ variables |-> SendVariables(args, promise),
      cacheParams |-> Defined([applyUpdates |-> TRUE]) ]

\* storeHandlers: fetch: observer.send({ ...args, variables })
CursorFetch(args, promise) ==
    [ variables |-> SendVariables(args, promise),
      cacheParams |-> args.cacheParams ]

\* FragmentStoreOffset.get: fetch
OffsetFetch(args, promise) ==
    [ variables |-> SendVariables(args, promise),
      cacheParams |-> args.cacheParams ]

\* FragmentStoreOffset.get: fetchUpdate
OffsetFetchUpdate(args, promise) ==
    [ variables |-> SendVariables(args, promise),
      cacheParams |-> Defined([applyUpdates |-> TRUE]) ]

-----------------------------------------------------------------------------
(* The handles returned by get(): members maps each exposed property to the index *)
(* of the observer behind it (0 for a property that is no observer's)             *)

\* own enumerable properties of a DocumentObserver, copied by { ...observer }
DocumentObserverKeys == {"subscribe", "send"}

\* FragmentStoreCursor.get: one observer n, the handlers are built over it
CursorGet(n) ==
    [ kind |-> 0, data |-> n, subscribe |-> n, loading |-> 0, fetch |-> n, pageInfo |-> n ]

\* FragmentStoreForwardCursor.get: super.get on observer n, then a second observer
\* n + 1 with handlers of its own, whose loadNextPage is added
ForwardCursorGet(n) ==
    ObjectSpread(CursorGet(n), [loadNextPage |-> n + 1])

\* variant: the backward store extends the forward store
BackwardCursorGet_ExtendsForward(n) ==
    ObjectSpread(ForwardCursorGet(n), [loadPreviousPage |-> n + 1])

\* FragmentStoreBackwardCursor.get
BackwardCursorGet(n) ==
    ObjectSpread(CursorGet(n), [loadPreviousPage |-> n + 1])

\* FragmentStoreOffset.get: { ...observer, kind, fetch, loadNextPage }
OffsetGet(n) ==
    ObjectSpread([k \in DocumentObserverKeys |-> n],
                 [kind |-> 0, fetch |-> n, loadNextPage |-> n])

\* pageInfo: handlers.pageInfo, the page info store of the handlers of super.get
HandlePageInfo(handle, obs) == obs[handle.members["pageInfo"]].pageInfo

\* data: derived(store, ($value) => $value.data)
HandleData(handle, obs) ==
    [ data |-> obs[handle.members["data"]].data,
      entities |-> obs[handle.members["data"]].entities ]

\* subscribe: derived([store, handlers.pageInfo], ...) delivers
\* { ...$parent, pageInfo: $pageInfo }
HandleSubscribe(handle, obs) ==
    ObjectSpread([ data |-> obs[handle.members["subscribe"]].data ],
                 [ pageInfo |-> HandlePageInfo(handle, obs) ])

ObserversOf(store) == IF store = "offset" THEN 1 ELSE 2

Members(store, n) ==
    CASE store = "forward" -> ForwardCursorGet(n)
      [] store = "backward" -> BackwardCursorGet(n)
      [] OTHER -> OffsetGet(n)

Stores == {"forward", "backward", "offset"}

\* what the handle's operation op hands to observer.send
SendArgs(store, op, args, promise) ==
    CASE store = "offset" /\ op = "fetch" -> OffsetFetch(args, promise)
      [] store = "offset" /\ op # "fetch" -> OffsetFetchUpdate(args, promise)
      [] store # "offset" /\ op = "fetch" -> CursorFetch(args, promise)
      [] OTHER -> CursorFetchUpdate(args, promise)

-----------------------------------------------------------------------------
(* State machine *)

NoCall ==
    [ op |-> "none", handle |-> 0, observer |-> 0, args |-> NoArgs,
      value |-> Null, promise |-> Fulfilled(EmptyObject),
      sendArgs |-> [variables |-> EmptyObject, cacheParams |-> Undefined],
      sent |-> FALSE, threw |-> "", unhandledRejection |-> FALSE,
      token |-> 0, committed |-> FALSE, artifact |-> NoRefetch,
      applyUpdates |-> FALSE, entitiesBefore |-> <<>>, response |-> Null,
      cleanup |-> <<>> ]

TotalSends ==
    LET RECURSIVE Sum(_)
        Sum(i) == IF i = 0 THEN 0 ELSE observers[i].gen + Sum(i - 1)
    IN  Sum(Len(observers))

\* before any client exists
InitClient ==
    /\ pluginsFromPlugins \in InjectedPluginLists
    /\ client = NoClient
    /\ observers = <<>>
    /\ handles = <<>>
    /\ lastCall = NoCall

\* after new HoudiniClient({ url }) has become the current client, in a build with a
\* framework integration
Init ==
    /\ pluginsFromPlugins = <<"frameworkPlugin">>
    /\ client = NewHoudiniClient(NoClient.args, pluginsFromPlugins)
    /\ observers = <<>>
    /\ handles = <<>>
    /\ lastCall = NoCall

\* new HoudiniClient(args)
Construct(args) ==
    /\ client.status = "none"
    /\ client' = NewHoudiniClient(args, pluginsFromPlugins)
    /\ lastCall' = [NoCall EXCEPT !.op = "construct",
                                  !.threw = IF ConstructorThrows(args)
                                            THEN "pipeline and plugins" ELSE ""]
    /\ UNCHANGED <<pluginsFromPlugins, observers, handles>>

\* variant: observe evaluates the pipeline again and keeps the result
Observe_ReevaluatesPipeline(artifact, cache) ==
    /\ client.status = "constructed"
    /\ Len(observers) < MaxObservers
    /\ client' = [client EXCEPT
                     !.plugins = AssemblePlugins(client.args, pluginsFromPlugins),
                     !.pipelineCalls = @ + (IF client.args.pipeline.defined THEN 1 ELSE 0)]
    /\ observers' = Append(observers, observe(client', artifact, cache))
    /\ lastCall' = [NoCall EXCEPT !.op = "observe", !.observer = Len(observers) + 1]
    /\ UNCHANGED <<pluginsFromPlugins, handles>>

\* client.observe({ artifact, cache })
Observe(artifact, cache) ==
    /\ client.status = "constructed"
    /\ Len(observers) < MaxObservers
    /\ observers' = Append(observers, observe(client, artifact, cache))
    /\ lastCall' = [NoCall EXCEPT !.op = "observe", !.observer = Len(observers) + 1]
    /\ UNCHANGED <<client, pluginsFromPlugins, handles>>

\* store.get(initialValue) of a forward cursor, backward cursor or offset store;
\* every observer comes from getCurrentClient().observe({ artifact, initialValue });
\* loading is the store writable(false) that a cursor handle exposes
Get(store, artifact) ==
    /\ client.status = "constructed"
    /\ Len(handles) < MaxHandles
    /\ Len(observers) + ObserversOf(store) <= MaxObservers
    /\ LET n == Len(observers) + 1
           created == [i \in 1..ObserversOf(store) |-> observe(client, artifact, TRUE)]
       IN  /\ observers' = observers \o created
           /\ handles' = Append(handles,
                  [ store |-> store, artifact |-> artifact,
                    members |-> Members(store, n),
                    created |-> Len(created),
                    loading |-> FALSE ])
           /\ lastCall' = [NoCall EXCEPT !.op = "get", !.handle = Len(handles) + 1,
                                         !.observer = n]
    /\ UNCHANGED <<client, pluginsFromPlugins>>

\* variant: the handle's loading store is set while its send is outstanding
Call_SetsLoading(h, op, args) ==
    /\ h \in DOMAIN handles
    /\ op \in DOMAIN handles[h].members
    /\ TotalSends < MaxSends
    /\ LET o == handles[h].members[op]
           value == observers[o].data
           promise == queryVariables(handles[h].artifact, value)
           sendArgs == SendArgs(handles[h].store, op, args, promise)
       IN  /\ observers' = [observers EXCEPT ![o] = send(@, sendArgs)]
           /\ lastCall' = [NoCall EXCEPT !.op = op, !.handle = h, !.observer = o,
                                         !.args = args, !.value = value,
                                         !.promise = promise, !.sendArgs = sendArgs,
                                         !.sent = TRUE, !.threw = "",
                                         !.unhandledRejection = (promise.status = "rejected"),
                                         !.token = observers[o].gen + 1]
    /\ handles' = [handles EXCEPT ![h].loading = TRUE]
    /\ UNCHANGED <<client, pluginsFromPlugins>>

\* variant: no send is issued while an earlier one of the observer is in flight
Call_Deduplicates(h, op, args) ==
    /\ h \in DOMAIN handles
    /\ op \in DOMAIN handles[h].members
    /\ TotalSends < MaxSends
    /\ LET o == handles[h].members[op]
           value == observers[o].data
           promise == queryVariables(handles[h].artifact, value)
           sendArgs == SendArgs(handles[h].store, op, args, promise)
           inFlight == observers[o].pending # {}
       IN  /\ observers' = IF inFlight THEN observers
                           ELSE [observers EXCEPT ![o] = send(@, sendArgs)]
           /\ lastCall' = [NoCall EXCEPT !.op = op, !.handle = h, !.observer = o,
                                         !.args = args, !.value = value,
                                         !.promise = promise, !.sendArgs = sendArgs,
                                         !.sent = ~inFlight, !.threw = "",
                                         !.unhandledRejection = (promise.status = "rejected"),
                                         !.token = observers[o].gen + 1]
    /\ UNCHANGED <<client, pluginsFromPlugins, handles>>

\* handle[op](...) for op in fetch, loadNextPage, loadPreviousPage: the handlers call
\* the store's fetch / fetchUpdate with args; the un-awaited queryVariables Promise is
\* left to reject on its own, and observer.send is called with what was spread
Call(h, op, args) ==
    /\ h \in DOMAIN handles
    /\ op \in DOMAIN handles[h].members
    /\ TotalSends < MaxSends
    /\ LET o == handles[h].members[op]
           value == observers[o].data
           promise == queryVariables(handles[h].artifact, value)
           sendArgs == SendArgs(handles[h].store, op, args, promise)
       IN  /\ observers' = [observers EXCEPT ![o] = send(@, sendArgs)]
           /\ lastCall' = [NoCall EXCEPT !.op = op, !.handle = h, !.observer = o,
                                         !.args = args, !.value = value,
                                         !.promise = promise, !.sendArgs = sendArgs,
                                         !.sent = TRUE, !.threw = "",
                                         !.unhandledRejection = (promise.status = "rejected"),
                                         !.token = observers[o].gen + 1]
    /\ UNCHANGED <<client, pluginsFromPlugins, handles>>

Fetch(h, args) == Call(h, "fetch", args)

LoadNextPage(h, args) == Call(h, "loadNextPage", args)

LoadPreviousPage(h, args) == Call(h, "loadPreviousPage", args)

\* the response of a pending send arrives
Complete(o, p, d) ==
    /\ o \in DOMAIN observers
    /\ p \in observers[o].pending
    /\ observers' = [observers EXCEPT ![o] = complete(@, p, d)]
    /\ lastCall' = [NoCall EXCEPT !.op = "complete", !.observer = o, !.token = p.token,
                                  !.committed = Commits(observers[o], p),
                                  !.applyUpdates = p.applyUpdates,
                                  !.entitiesBefore = observers[o].entities,
                                  !.response = d]
    /\ UNCHANGED <<client, pluginsFromPlugins, handles>>

\* the cached values queryVariables can read off the store
CachedValues ==
    {Null} \cup
    { Value(ObjectSpread(ObjectSpread(i, sl), nm)) :
        i \in {EmptyObject, [id |-> "42"], [id |-> "7"]},
        sl \in {EmptyObject, [slug |-> "a"], [slug |-> "b"]},
        nm \in {EmptyObject, [name |-> "n"]} }

QueryArtifacts == Artifacts \cup { Refetch("Comment"), Refetch("Tag") }

\* store.queryVariables(observer) on a store of the artifact whose observer holds value
QueryVariables(artifact, value) ==
    /\ client.status = "constructed"
    /\ lastCall' = [NoCall EXCEPT !.op = "queryVariables", !.value = value,
                                  !.artifact = artifact,
                                  !.promise = queryVariables(artifact, value)]
    /\ UNCHANGED <<client, pluginsFromPlugins, observers, handles>>

NextQueryVariables ==
    \E a \in QueryArtifacts, v \in CachedValues : QueryVariables(a, v)

\* observer.subscribe(callback)
Subscribe(o) ==
    /\ o \in DOMAIN observers
    /\ observers[o].subscribers < MaxSubscribers
    /\ observers' = [observers EXCEPT ![o] = subscribe(@)]
    /\ lastCall' = [NoCall EXCEPT !.op = "subscribe", !.observer = o]
    /\ UNCHANGED <<client, pluginsFromPlugins, handles>>

\* a subscriber calls its unsubscribe function
Unsubscribe(o) ==
    /\ o \in DOMAIN observers
    /\ observers[o].subscribers > 0
    /\ observers' = [observers EXCEPT ![o] = unsubscribe(@).observer]
    /\ lastCall' = [NoCall EXCEPT !.op = "unsubscribe", !.observer = o,
                                  !.cleanup = unsubscribe(observers[o]).cleanup]
    /\ UNCHANGED <<client, pluginsFromPlugins, handles>>

\* observers of the default client and their subscribers
InitSubscribers ==
    /\ pluginsFromPlugins \in InjectedPluginLists
    /\ client = NewHoudiniClient(NoClient.args, pluginsFromPlugins)
    /\ observers = <<>>
    /\ handles = <<>>
    /\ lastCall = NoCall

NextSubscribers ==
    \/ \E a \in Artifacts, cache \in BOOLEAN : Observe(a, cache)
    \/ \E o \in 1..MaxObservers : Subscribe(o)
    \/ \E o \in 1..MaxObservers : Unsubscribe(o)

NextClient ==
    \/ \E args \in ConstructorArgs : Construct(args)
    \/ \E a \in Artifacts, cache \in BOOLEAN : Observe(a, cache)

Next ==
    \/ \E store \in Stores, a \in Artifacts : Get(store, a)
    \/ \E h \in 1..MaxHandles, args \in HandlerArgs : Fetch(h, args)
    \/ \E h \in 1..MaxHandles, args \in HandlerArgs : LoadNextPage(h, args)
    \/ \E h \in 1..MaxHandles, args \in HandlerArgs : LoadPreviousPage(h, args)
    \/ \E o \in 1..MaxObservers, d \in ResponseData :
          \E p \in (IF o \in DOMAIN observers THEN observers[o].pending ELSE {}) :
              Complete(o, p, d)

SpecClient == InitClient /\ [][NextClient]_vars

Spec == Init /\ [][Next]_vars

SpecSubscribers == InitSubscribers /\ [][NextSubscribers]_vars

SpecQueryVariables == Init /\ [][NextQueryVariables]_vars

-----------------------------------------------------------------------------
(* Properties of the client (checked under SpecClient) *)

Last(q) == q[Len(q)]

\* C1: a construction given both `plugins` and `pipeline` throws: no client results,
\* no plugin list is assembled and no observer is ever obtained
C1_BothGivenThrows ==
    (client.status # "none" /\ client.args.plugins.defined /\ client.args.pipeline.defined)
        => /\ client.status = "threw"
           /\ lastCall.threw # ""
           /\ client.plugins = <<>>
           /\ observers = <<>>

C1_Witness ==
    /\ lastCall.op = "construct"
    /\ client.status = "threw"
    /\ client.args.plugins.defined /\ client.args.plugins.list = <<>>
    /\ client.args.pipeline.defined

\* C2: inputsPlugin is the first plugin of every constructed client and of the list
\* handed to every observer
C2_InputsPluginFirst ==
    /\ client.status = "constructed"
          => (Len(client.plugins) >= 1 /\ client.plugins[1] = inputsPlugin)
    /\ \A i \in DOMAIN observers :
          Len(observers[i].plugins) >= 1 /\ observers[i].plugins[1] = inputsPlugin

C2_Witness ==
    /\ client.status = "constructed"
    /\ client.args.fetchParams
    /\ client.args.pipeline.defined
    /\ Len(observers) >= 1
    /\ observers[1].plugins[1] = inputsPlugin

\* C6 as stated: the plugin list of every constructed client ends with a fetch plugin
C6_FetchPluginLast ==
    client.status = "constructed" => Last(client.plugins) = fetchPluginInstance

\* C6 amended: the plugin list of every client constructed without a custom pipeline
\* ends with the fetch plugin, and so does the list handed to its observers
C6_FetchPluginLastWithoutPipeline ==
    (client.status = "constructed" /\ ~client.args.pipeline.defined)
        => /\ Last(client.plugins) = fetchPluginInstance
           /\ \A i \in DOMAIN observers : Last(observers[i].plugins) = fetchPluginInstance

C6_Witness ==
    /\ client.status = "constructed"
    /\ ~client.args.pipeline.defined
    /\ client.args.plugins.defined /\ Len(client.args.plugins.list) = 2
    /\ pluginsFromPlugins # <<>>
    /\ Len(observers) >= 1
    /\ Last(observers[1].plugins) = fetchPluginInstance

\* C7: without a custom pipeline the list is inputsPlugin, the fetch-params plugin iff
\* fetchParams was given, queryPlugin, mutationPlugin, the user's plugins in order,
\* the injected plugins, the fetch plugin, and nothing else
C7_StandardOrder ==
    (client.status = "constructed" /\ ~client.args.pipeline.defined) =>
        LET p == client.plugins
            k == IF client.args.fetchParams THEN 1 ELSE 0
            u == IF client.args.plugins.defined THEN client.args.plugins.list ELSE <<>>
            j == pluginsFromPlugins
        IN  /\ Len(p) = 4 + k + Len(u) + Len(j)
            /\ p[1] = inputsPlugin
            /\ (k = 1) => p[2] = fetchParamsPluginInstance
            /\ (k = 0) => \A i \in DOMAIN p : p[i] # fetchParamsPluginInstance
            /\ p[2 + k] = queryPlugin
            /\ p[3 + k] = mutationPlugin
            /\ \A i \in DOMAIN u : p[3 + k + i] = u[i]
            /\ \A i \in DOMAIN j : p[3 + k + Len(u) + i] = j[i]
            /\ p[Len(p)] = fetchPluginInstance

C7_Witness ==
    /\ client.status = "constructed"
    /\ ~client.args.pipeline.defined
    /\ client.args.fetchParams
    /\ client.args.plugins.defined /\ client.args.plugins.list = <<"userB", "userA">>
    /\ pluginsFromPlugins = <<"frameworkPlugin">>
    /\ client.plugins = <<inputsPlugin, fetchParamsPluginInstance, queryPlugin, mutationPlugin,
                          "userB", "userA", "frameworkPlugin", fetchPluginInstance>>

-----------------------------------------------------------------------------
(* Properties of the observers and of the paginated handles (checked under Spec) *)

PageOps == {"fetch", "loadNextPage", "loadPreviousPage"}

NavigationOps == {"loadNextPage", "loadPreviousPage"}

\* C3: when the response of a send arrives after a newer send of the same observer
\* has committed, the committed value of the observer stays that of the newer send
C3_NoRegression ==
    [][ \A o \in DOMAIN observers :
          /\ observers'[o].committedGen >= observers[o].committedGen
          /\ \A p \in observers[o].pending :
                (p \notin observers'[o].pending /\ p.token < observers[o].committedGen)
                    => /\ observers'[o].data = observers[o].data
                       /\ observers'[o].committedGen = observers[o].committedGen ]_vars

C3_Witness ==
    /\ lastCall.op = "complete"
    /\ ~lastCall.committed
    /\ lastCall.token < observers[lastCall.observer].committedGen
    /\ ~observers[lastCall.observer].data.isNull

\* C4: a page load or fetch on a handle whose target type has no type configuration
\* fails with the missing-configuration error and issues no send
C4_MissingConfigFailsBeforeSend ==
    (lastCall.op \in PageOps /\ lastCall.promise.reason = MissingTypeRefetch)
        => /\ lastCall.threw = MissingTypeRefetch
           /\ ~lastCall.sent
           /\ observers[lastCall.observer].gen < lastCall.token

\* C5: the variables of every send of a page load or fetch are the caller's
\* variables merged with the identity variables resolved by queryVariables
C5_SendCarriesIdentityVariables ==
    (lastCall.op \in PageOps /\ lastCall.sent /\ lastCall.promise.status = "fulfilled")
        => lastCall.sendArgs.variables =
              ObjectSpread(SpreadOptional(lastCall.args.variables), lastCall.promise.value)

\* C8: a cursor handle is backed by one observer: its navigation method sends on the
\* observer that feeds subscribe, data, pageInfo and fetch, and get() created one observer
C8_OneObserverPerHandle ==
    \A h \in DOMAIN handles :
        handles[h].store \in {"forward", "backward"} =>
            LET m == handles[h].members
            IN  /\ \A op \in NavigationOps \cap DOMAIN m :
                      /\ m[op] = m["subscribe"]
                      /\ m[op] = m["data"]
                      /\ m[op] = m["pageInfo"]
                      /\ m[op] = m["fetch"]
                /\ handles[h].created = 1

Exposed(h) == DOMAIN handles[h].members

\* what a forward and a backward cursor handle have in common
CursorOperations == {"kind", "data", "subscribe", "loading", "fetch", "pageInfo"}

\* C9: a backward handle exposes no loadNextPage, a forward handle no loadPreviousPage,
\* an offset handle loadNextPage and no loadPreviousPage; navigation aside, forward and
\* backward handles expose the same operations, among them subscribe, data, fetch, pageInfo
C9_CapabilityRestriction ==
    /\ \A h \in DOMAIN handles :
          /\ handles[h].store = "backward" => "loadNextPage" \notin Exposed(h)
          /\ handles[h].store = "forward" => "loadPreviousPage" \notin Exposed(h)
          /\ handles[h].store = "offset" =>
                ("loadNextPage" \in Exposed(h) /\ "loadPreviousPage" \notin Exposed(h))
          /\ handles[h].store # "offset" =>
                /\ {"subscribe", "data", "fetch", "pageInfo"} \subseteq Exposed(h)
                /\ Exposed(h) \ NavigationOps = CursorOperations
    /\ \A f, b \in DOMAIN handles :
          (handles[f].store = "forward" /\ handles[b].store = "backward")
              => Exposed(f) \ NavigationOps = Exposed(b) \ NavigationOps
    /\ lastCall.op \in NavigationOps =>
          /\ handles[lastCall.handle].store = "backward" => lastCall.op = "loadPreviousPage"
          /\ handles[lastCall.handle].store # "backward" => lastCall.op = "loadNextPage"

C9_Witness ==
    /\ lastCall.op = "loadPreviousPage"
    /\ handles[lastCall.handle].store = "backward"
    /\ "loadPreviousPage" \in Exposed(lastCall.handle)
    /\ "loadNextPage" \notin Exposed(lastCall.handle)
    /\ observers[lastCall.observer].gen = 2

\* C10: the send of a page load carries cacheParams { applyUpdates: true } whatever the
\* caller passed, the send of a fetch carries the caller's cacheParams unchanged
C10_ApplyUpdates ==
    /\ lastCall.op \in NavigationOps =>
          /\ lastCall.sendArgs.cacheParams = Defined([applyUpdates |-> TRUE])
          /\ \E p \in observers[lastCall.observer].pending :
                p.token = lastCall.token /\ p.applyUpdates
    /\ lastCall.op = "fetch" =>
          /\ lastCall.sendArgs.cacheParams = lastCall.args.cacheParams
          /\ \E p \in observers[lastCall.observer].pending :
                /\ p.token = lastCall.token
                /\ p.applyUpdates = (lastCall.args.cacheParams = Defined([applyUpdates |-> TRUE]))

C10_Witness ==
    /\ lastCall.op \in NavigationOps
    /\ handles[lastCall.handle].store # "offset"
    /\ lastCall.args.cacheParams = Defined([applyUpdates |-> FALSE])
    /\ lastCall.sendArgs.cacheParams = Defined([applyUpdates |-> TRUE])

-----------------------------------------------------------------------------
(* Properties of queryVariables (checked under SpecQueryVariables) *)

TargetTypeOf(artifact) == IF artifact.refetch THEN artifact.targetType ELSE ""

KeySet(t) == IF t = "Comment" THEN {"id", "slug"} ELSE {"id"}

HasResolver(t) == t \in {"Post", "Tag"}

\* C11 as stated: for every cached value, a configured type with resolve.arguments
\* resolves to what that function returns (or {}), and any other configured type
\* resolves to exactly its key fields read off the cached value
C11_ResolvesForEveryValue ==
    (lastCall.op = "queryVariables" /\ TargetTypeOf(lastCall.artifact) \in ConfiguredTypes)
        => /\ lastCall.promise.status = "fulfilled"
           /\ ~HasResolver(TargetTypeOf(lastCall.artifact)) =>
                 DOMAIN lastCall.promise.value = KeySet(TargetTypeOf(lastCall.artifact))

\* C11 amended: the same policy for every cached value that is not null; with a null
\* cached value and no resolve.arguments the Promise rejects with a TypeError
C11_ResolvePolicy ==
    (lastCall.op = "queryVariables" /\ TargetTypeOf(lastCall.artifact) \in ConfiguredTypes) =>
        LET t == TargetTypeOf(lastCall.artifact)
            v == lastCall.value
            r == lastCall.promise
        IN  /\ t = "Post" =>
                 /\ r.status = "fulfilled"
                 /\ v.isNull => r.value = EmptyObject
                 /\ ~v.isNull => (DOMAIN r.value = {"postID"}
                                  /\ r.value["postID"] = Property(v, "id"))
            /\ t = "Tag" => (r.status = "fulfilled" /\ r.value = EmptyObject)
            /\ (~HasResolver(t) /\ ~v.isNull) =>
                 /\ r.status = "fulfilled"
                 /\ DOMAIN r.value = KeySet(t)
                 /\ \A k \in KeySet(t) :
                       r.value[k] = IF k \in DOMAIN v.fields THEN v.fields[k]
                                    ELSE UndefinedValue
            /\ (~HasResolver(t) /\ v.isNull) =>
                 (r.status = "rejected" /\ r.reason = "TypeError")

C11_Witness ==
    /\ lastCall.op = "queryVariables"
    /\ lastCall.artifact = Refetch("User")
    /\ lastCall.value = Value([id |-> "42", name |-> "n"])
    /\ lastCall.promise = Fulfilled([id |-> "42"])

-----------------------------------------------------------------------------
(* Further properties of the client (checked under SpecClient) *)

\* C12: with a custom pipeline the list is inputsPlugin, the fetch-params plugin if
\* fetchParams was given, then the plugins the pipeline function returned, in order,
\* and nothing else: no queryPlugin, mutationPlugin, injected or fetch plugin is added
C12_PipelineVerbatim ==
    (client.status = "constructed" /\ client.args.pipeline.defined) =>
        LET p == client.plugins
            k == IF client.args.fetchParams THEN 1 ELSE 0
            l == client.args.pipeline.list
        IN  /\ Len(p) = 1 + k + Len(l)
            /\ p[1] = inputsPlugin
            /\ (k = 1) => p[2] = fetchParamsPluginInstance
            /\ \A i \in DOMAIN l : p[1 + k + i] = l[i]
            /\ \A x \in {queryPlugin, mutationPlugin, fetchPluginInstance, "frameworkPlugin"} :
                  Cardinality({i \in DOMAIN p : p[i] = x})
                      = Cardinality({i \in DOMAIN l : l[i] = x})

C12_Witness ==
    /\ client.status = "constructed"
    /\ client.args.pipeline.defined
    /\ client.args.pipeline.list = <<"userA">>
    /\ client.args.fetchParams
    /\ pluginsFromPlugins = <<"frameworkPlugin">>
    /\ client.plugins = <<inputsPlugin, fetchParamsPluginInstance, "userA">>

-----------------------------------------------------------------------------
(* Further properties of the paginated handles (checked under Spec) *)

\* C13: every invocation of a page load issues one send of its own on the observer,
\* also while earlier sends of that observer are still in flight
C13_OneSendPerInvocation ==
    [][ (lastCall' # lastCall /\ lastCall'.op \in NavigationOps) =>
            LET o == lastCall'.observer
            IN  /\ lastCall'.sent
                /\ observers'[o].gen = observers[o].gen + 1
                /\ observers'[o].pending # observers[o].pending
                /\ Cardinality(observers'[o].pending) = Cardinality(observers[o].pending) + 1
                /\ \A i \in DOMAIN observers : i # o => observers'[i] = observers[i] ]_vars

C13_Witness ==
    /\ lastCall.op = "loadNextPage"
    /\ lastCall.token = 2
    /\ observers[lastCall.observer].gen = 2
    /\ Cardinality(observers[lastCall.observer].pending) = 2

\* the observers that the page operations of a handle send on
SendObservers(handle) == { handle.members[op] : op \in PageOps \cap DOMAIN handle.members }

\* C14: when a page committed with applyUpdates is merged, the list keeps the entities
\* of the earlier pages and gains those of the new page, the handle's pageInfo carries
\* the new page's endCursor and hasNextPage, and a subscriber of the cursor handle is
\* handed the observer's value combined with that pageInfo
C14_MergedPageVisible ==
    (lastCall.op = "complete" /\ lastCall.committed /\ lastCall.applyUpdates) =>
        \A h \in DOMAIN handles :
            (handles[h].store # "offset" /\ lastCall.observer \in SendObservers(handles[h])) =>
                LET page == PageOf(lastCall.response)
                IN  /\ observers[lastCall.observer].entities
                          = lastCall.entitiesBefore \o page.entities
                    /\ HandlePageInfo(handles[h], observers).endCursor = page.endCursor
                    /\ HandlePageInfo(handles[h], observers).hasNextPage = page.hasNextPage
                    /\ HandleSubscribe(handles[h], observers)["pageInfo"] = PageInfoOf(page)
                    /\ HandleSubscribe(handles[h], observers)["data"]
                          = observers[handles[h].members["subscribe"]].data

-----------------------------------------------------------------------------
(* Properties of subscriptions (checked under SpecSubscribers) *)

\* C15: when the only remaining subscriber of an observer unsubscribes, the cleanup hook
\* of every plugin of the observer runs once, last plugin first; no cleanup hook runs
\* while a subscriber remains
C15_CleanupOnLastUnsubscribe ==
    /\ lastCall.op = "unsubscribe" =>
          LET o == observers[lastCall.observer]
              n == Len(o.plugins)
          IN  /\ o.subscribers = 0 =>
                    /\ Len(lastCall.cleanup) = n
                    /\ \A i \in 1..n : lastCall.cleanup[i] = o.plugins[n + 1 - i]
              /\ o.subscribers > 0 => lastCall.cleanup = <<>>
    /\ lastCall.op # "unsubscribe" => lastCall.cleanup = <<>>

C15_Witness ==
    /\ lastCall.op = "unsubscribe"
    /\ observers[lastCall.observer].subscribers = 0
    /\ Len(lastCall.cleanup) = 5
    /\ lastCall.cleanup[1] = fetchPluginInstance
    /\ lastCall.cleanup[5] = inputsPlugin

-----------------------------------------------------------------------------
(* Frame properties of the client (checked under SpecClient) *)

\* C16: every observer of a client holds the plugin list assembled at construction;
\* once the client is constructed no step changes its plugin list or its url, and
\* the pipeline function has been evaluated at construction only
C16_PipelineFixed ==
    [][ /\ client.status = "constructed" => client' = client
        /\ client'.status = "constructed" =>
              /\ \A o \in DOMAIN observers' : observers'[o].plugins = client'.plugins
              /\ client'.url = client'.args.url
              /\ client'.pipelineCalls = IF client'.args.pipeline.defined THEN 1 ELSE 0 ]_vars

C16_Witness ==
    /\ client.status = "constructed"
    /\ client.args.pipeline.defined
    /\ client.pipelineCalls = 1
    /\ Len(observers) = 2
    /\ observers[1].plugins = client.plugins
    /\ observers[2].plugins = client.plugins
    /\ observers[1].artifact # observers[2].artifact

-----------------------------------------------------------------------------
(* The loading store of the cursor handles (checked under Spec) *)

====
